---- MODULE Spec2Model ----
(***************************************************************************)
(* Story-Retell: the session phase controller of                           *)
(* components/story-retell-app.tsx (second, current component of the file, *)
(* lines 600-1855) and the transcript scoring engine of lib/scoring.ts.    *)
(*                                                                         *)
(* Texts are TLA+ strings; a character is a string of length 1.  Indexes   *)
(* into the story list are 1-based here (0-based in the source); 0 stands  *)
(* for null.                                                               *)
(***************************************************************************)
EXTENDS Integers, Sequences, FiniteSets, TLC

(***************************************************************************)
(* Bounds of the model.                                                    *)
(***************************************************************************)
\* number of practice sessions a behaviour may start
MaxSessions == 2
\* number of final fragments the transcript accumulator may hold
MaxFrags == 1

(***************************************************************************)
(* Text helpers (JavaScript string primitives used by lib/scoring.ts).     *)
(***************************************************************************)
UpperChars == "ABCDEFGHIJKLMNOPQRSTUVWXYZ"

LowerChars == "abcdefghijklmnopqrstuvwxyz"

DigitChars == "0123456789"

\* UTF-16 code unit order of the characters the model's texts use
CodeOrder == "\t\n !',-.0123456789ABCDEFGHIJKLMNOPQRSTUVWXYZabcdefghijklmnopqrstuvwxyz"

CharAt(s, i) == SubSeq(s, i, i)

IndexIn(c, s) == IF \E i \in 1..Len(s) : CharAt(s, i) = c
                 THEN CHOOSE i \in 1..Len(s) : CharAt(s, i) = c
                 ELSE 0

\* String.prototype.toLowerCase on one character
LowerChar(c) == IF IndexIn(c, UpperChars) > 0
                THEN CharAt(LowerChars, IndexIn(c, UpperChars))
                ELSE c

\* the concatenation f[lo] \o ... \o f[hi] of a sequence of strings
RECURSIVE concatRange(_, _, _)
concatRange(f, lo, hi) ==
  IF lo > hi THEN ""
  ELSE IF lo = hi THEN f[lo]
  ELSE concatRange(f, lo, (lo + hi) \div 2) \o concatRange(f, (lo + hi) \div 2 + 1, hi)

\* String.prototype.toLowerCase
toLowerCase(s) == concatRange([i \in 1..Len(s) |-> LowerChar(CharAt(s, i))], 1, Len(s))

\* the regular expression class \s
IsSpace(c) == c \in {" ", "\t", "\n"}

\* the regular expression class [a-z0-9]
IsLowerAlnum(c) == IndexIn(c, LowerChars) > 0 \/ IndexIn(c, DigitChars) > 0

\* text.replace(/[^a-z0-9\s]/g, " ")
replaceNonAlnum(s) ==
  concatRange([i \in 1..Len(s) |->
                 IF IsLowerAlnum(CharAt(s, i)) \/ IsSpace(CharAt(s, i)) THEN CharAt(s, i) ELSE " "],
              1, Len(s))

\* text.split(/\s+/).filter(Boolean): the maximal runs of non-space characters
splitWords(s) ==
  LET IsWordChar(i) == i \in 1..Len(s) /\ ~IsSpace(CharAt(s, i))
      starts == {i \in 1..Len(s) : IsWordChar(i) /\ ~IsWordChar(i - 1)}
      ends == {i \in 1..Len(s) : IsWordChar(i) /\ ~IsWordChar(i + 1)}
      nth(S, k) == CHOOSE i \in S : Cardinality({j \in S : j < i}) = k - 1
  IN [k \in 1..Cardinality(starts) |-> SubSeq(s, nth(starts, k), nth(ends, k))]

\* String.prototype.trim
RECURSIVE trimStart(_)
trimStart(s) == IF s # "" /\ IsSpace(Head(s)) THEN trimStart(Tail(s)) ELSE s

RECURSIVE trimEnd(_)
trimEnd(s) == IF s # "" /\ IsSpace(CharAt(s, Len(s)))
              THEN trimEnd(SubSeq(s, 1, Len(s) - 1))
              ELSE s

trim(s) == trimEnd(trimStart(s))

endsWith(s, suf) == Len(s) >= Len(suf) /\ SubSeq(s, Len(s) - Len(suf) + 1, Len(s)) = suf

\* s.replace(/(suf)$/i, rep) on a lowercased s
replaceSuffix(s, suf, rep) == IF endsWith(s, suf)
                              THEN SubSeq(s, 1, Len(s) - Len(suf)) \o rep
                              ELSE s

\* String.prototype.includes
includes(s, sub) == \E i \in 1..(Len(s) - Len(sub) + 1) : SubSeq(s, i, i + Len(sub) - 1) = sub

\* the longest common substring loop of computeMatchScoreWithKeywords
longestCommonSubstring(a, b) ==
  LET lens == {k \in 0..Len(a) : \E i \in 1..(Len(a) - k + 1), j \in 1..(Len(b) - k + 1) :
                                   SubSeq(a, i, i + k - 1) = SubSeq(b, j, j + k - 1)}
  IN CHOOSE k \in lens : \A m \in lens : m <= k

\* comparison of two strings by UTF-16 code units (default Array.prototype.sort order)
RECURSIVE strLess(_, _)
strLess(a, b) ==
  IF b = "" THEN FALSE
  ELSE IF a = "" THEN TRUE
  ELSE IF Head(a) = Head(b) THEN strLess(Tail(a), Tail(b))
  ELSE IndexIn(Head(a), CodeOrder) < IndexIn(Head(b), CodeOrder)

\* Array.prototype.sort() on strings (stable insertion)
RECURSIVE insertSorted(_, _)
insertSorted(seq, x) ==
  IF seq = << >> THEN << x >>
  ELSE IF strLess(x, Head(seq)) THEN << x >> \o seq
  ELSE << Head(seq) >> \o insertSorted(Tail(seq), x)

RECURSIVE sortStrings(_)
sortStrings(seq) == IF seq = << >> THEN << >>
                    ELSE insertSorted(sortStrings(SubSeq(seq, 1, Len(seq) - 1)), seq[Len(seq)])

SeqToSet(seq) == {seq[i] : i \in 1..Len(seq)}

(***************************************************************************)
(* lib/scoring.ts                                                          *)
(***************************************************************************)
STOPWORDS ==
  {
    "a", "an", "the", "and", "or", "but", "if", "then",
    "than", "that", "this", "those", "these", "there", "is", "are",
    "was", "were", "be", "been", "being", "am", "do", "does",
    "did", "done", "doing", "have", "has", "had", "will", "would",
    "shall", "should", "can", "could", "may", "might", "must", "for",
    "to", "of", "in", "on", "at", "by", "with", "as",
    "from", "into", "out", "about", "over", "after", "it", "its",
    "it's", "he", "she", "they", "we", "you", "i", "me",
    "him", "her", "them", "us", "my", "your", "our", "their",
    "his", "hers", "ours", "theirs", "so", "very", "just", "also",
    "too", "much", "many", "more", "most", "some", "any", "all",
    "few", "several", "such", "up", "down", "before", "again", "once",
    "when", "while", "where", "why", "how", "got", "get", "getting",
    "go", "going", "went", "come", "came", "coming"
  }

irregulars ==
  {
    <<"children", "child">>, <<"people", "person">>, <<"men", "man">>, <<"women", "woman">>,
    <<"feet", "foot">>, <<"teeth", "tooth">>, <<"mice", "mouse">>, <<"geese", "goose">>,
    <<"went", "go">>, <<"came", "come">>, <<"saw", "see">>, <<"got", "get">>,
    <<"took", "take">>, <<"made", "make">>, <<"said", "say">>, <<"told", "tell">>,
    <<"gave", "give">>, <<"found", "find">>, <<"bought", "buy">>, <<"brought", "bring">>,
    <<"thought", "think">>, <<"rode", "ride">>, <<"", "ride">>, <<"riding", "ride">>,
    <<"rides", "ride">>, <<"decided", "decide">>, <<"decides", "decide">>, <<"deciding", "decide">>,
    <<"loved", "love">>, <<"loves", "love">>, <<"loving", "love">>, <<"trained", "train">>,
    <<"trains", "train">>, <<"training", "train">>, <<"competed", "compete">>, <<"competes", "compete">>,
    <<"competing", "compete">>, <<"beaten", "beat">>, <<"beats", "beat">>, <<"beating", "beat">>,
    <<"raced", "race">>, <<"races", "race">>, <<"racing", "race">>
  }

\* stem(token): the irregular table first, then every suffix replacement in turn
stem(token) ==
  LET stemmed == toLowerCase(token)
      r1 == replaceSuffix(stemmed, "ies", "y")
      r2 == replaceSuffix(r1, "ied", "y")
      r3 == replaceSuffix(r2, "ing", "")
      r4 == replaceSuffix(r3, "ed", "")
      r5 == IF endsWith(r4, "ly") THEN replaceSuffix(r4, "ly", "")
            ELSE IF endsWith(r4, "ness") THEN replaceSuffix(r4, "ness", "")
            ELSE IF endsWith(r4, "ment") THEN replaceSuffix(r4, "ment", "")
            ELSE replaceSuffix(r4, "s", "")
  IN IF \E p \in irregulars : p[1] = stemmed
     THEN (CHOOSE p \in irregulars : p[1] = stemmed)[2]
     ELSE r5

mapStem(seq) == [i \in 1..Len(seq) |-> stem(seq[i])]

IsContentToken(t) == t # "" /\ t \notin STOPWORDS

\* normalize(text)
normalize(text) ==
  SelectSeq(mapStem(splitWords(replaceNonAlnum(toLowerCase(text)))), IsContentToken)

\* weight of one occurrence, times 10 * n: positionWeight = max(0.5, 1 - index / n),
\* lengthWeight = min(2, length / 5); index is 0-based
occurrenceWeight(tokens, i) ==
  LET n == Len(tokens)
      pos2n == IF n > 2 * (n - (i - 1)) THEN n ELSE 2 * (n - (i - 1))
      len5 == IF Len(tokens[i]) > 10 THEN 10 ELSE Len(tokens[i])
  IN pos2n * len5

RECURSIVE sumWeights(_, _, _)
sumWeights(tokens, t, i) ==
  IF i = 0 THEN 0
  ELSE (IF tokens[i] = t THEN occurrenceWeight(tokens, i) ELSE 0) + sumWeights(tokens, t, i - 1)

\* the keys of the frequency map, in insertion (first occurrence) order
RECURSIVE distinctTokens(_, _)
distinctTokens(tokens, acc) ==
  IF tokens = << >> THEN acc
  ELSE distinctTokens(Tail(tokens),
                      IF Head(tokens) \in SeqToSet(acc) THEN acc ELSE Append(acc, Head(tokens)))

\* the comparator of extractKeywords: a sorts before b
keywordBefore(tokens, a, b) ==
  LET wa == sumWeights(tokens, a, Len(tokens))
      wb == sumWeights(tokens, b, Len(tokens))
      diff == IF wb > wa THEN wb - wa ELSE wa - wb
  IN IF diff > Len(tokens) THEN wa > wb
     ELSE IF Len(a) # Len(b) THEN Len(a) > Len(b)
     ELSE strLess(a, b)

RECURSIVE insertKeyword(_, _, _)
insertKeyword(tokens, seq, x) ==
  IF seq = << >> THEN << x >>
  ELSE IF keywordBefore(tokens, x, Head(seq)) THEN << x >> \o seq
  ELSE << Head(seq) >> \o insertKeyword(tokens, Tail(seq), x)

RECURSIVE sortKeywords(_, _)
sortKeywords(tokens, seq) ==
  IF seq = << >> THEN << >>
  ELSE insertKeyword(tokens, sortKeywords(tokens, SubSeq(seq, 1, Len(seq) - 1)), seq[Len(seq)])

\* extractKeywords(text, max)
extractKeywords(text, max) ==
  LET tokens == normalize(text)
      sorted == sortKeywords(tokens, distinctTokens(tokens, << >>))
  IN SubSeq(sorted, 1, IF Len(sorted) < max THEN Len(sorted) ELSE max)

(***************************************************************************)
(* The numbers of the score.  A JavaScript number is modelled as an exact   *)
(* fraction << numerator, denominator >> in lowest terms; << 0, 0 >> is NaN *)
(* and << 1, 0 >> is Infinity.  For the counts the model reaches (at most 2 *)
(* keywords, 3 content words, 4 tokens) the IEEE doubles of the code round  *)
(* to the same percentage as the exact fractions.                          *)
(***************************************************************************)
RECURSIVE gcd(_, _)
gcd(a, b) == IF b = 0 THEN a ELSE gcd(b, a % b)

abs(n) == IF n < 0 THEN 0 - n ELSE n

\* the number n / d with d > 0, in lowest terms
Frac(n, d) == LET g == gcd(abs(n), d) IN << n \div g, d \div g >>

NaN == << 0, 0 >>

Infinity == << 1, 0 >>

\* a / b of two counts: 0 / 0 is NaN, n / 0 is Infinity
divide(a, b) == IF b # 0 THEN Frac(a, b) ELSE IF a = 0 THEN NaN ELSE Infinity

plus(a, b) == Frac(a[1] * b[2] + b[1] * a[2], a[2] * b[2])

minus(a, b) == Frac(a[1] * b[2] - b[1] * a[2], a[2] * b[2])

times(a, b) == Frac(a[1] * b[1], a[2] * b[2])

\* a > b; false when either is NaN
greater(a, b) ==
  IF a = NaN \/ b = NaN THEN FALSE
  ELSE IF a = Infinity THEN b # Infinity
  ELSE IF b = Infinity THEN FALSE
  ELSE a[1] * b[2] > b[1] * a[2]

\* Math.min(a, b): NaN when either is NaN
MathMin(a, b) == IF a = NaN \/ b = NaN THEN NaN ELSE IF greater(a, b) THEN b ELSE a

\* Math.max(a, b): NaN when either is NaN
MathMax(a, b) == IF a = NaN \/ b = NaN THEN NaN ELSE IF greater(a, b) THEN a ELSE b

\* Math.round(a) of a finite number: the integer nearest to a, halves going up
MathRound(a) == (2 * a[1] + a[2]) \div (2 * a[2])

IsNotStopword(t) == t \notin STOPWORDS

\* a bonus that grows from a length ratio of 0 on
lengthBonusFromZero(lengthRatio) ==
  IF greater(lengthRatio, Frac(0, 1)) THEN times(lengthRatio, Frac(2, 10)) ELSE Frac(0, 1)

\* const lengthBonus = lengthRatio > 0.5 ? (lengthRatio - 0.5) * 0.2 : 0
lengthBonus(lengthRatio) ==
  IF greater(lengthRatio, Frac(1, 2))
  THEN times(minus(lengthRatio, Frac(1, 2)), Frac(2, 10))
  ELSE Frac(0, 1)

\* the content-word overlap and the length bonus, from normalize(story) and
\* normalize(transcript)
contentOverlap(storyTokens, userTokensArray) ==
  LET storyMeaningfulWords == SelectSeq(storyTokens, IsNotStopword)
      userMeaningfulWords == SelectSeq(userTokensArray, IsNotStopword)
      storyContentSet == SeqToSet(storyMeaningfulWords)
      userContentSet == SeqToSet(userMeaningfulWords)
      contentMatches == Cardinality(storyContentSet \cap userContentSet)
      lengthRatio == MathMin(Frac(1, 1),
                             divide(Len(userMeaningfulWords), Len(storyMeaningfulWords)))
  IN [storyMeaningfulWords |-> Len(storyMeaningfulWords),
      userMeaningfulWords |-> Len(userMeaningfulWords),
      contentWords |-> Cardinality(storyContentSet),
      userContentWords |-> Cardinality(userContentSet),
      contentMatches |-> contentMatches,
      contentWordScore |-> IF Cardinality(storyContentSet) # 0
                           THEN Frac(contentMatches, Cardinality(storyContentSet))
                           ELSE Frac(0, 1),
      lengthRatio |-> lengthRatio,
      lengthBonus |-> lengthBonus(lengthRatio)]

\* a curve that takes the upper branch from 0.4 on
finalScoreFromPointFour(baseScore) ==
  IF ~greater(Frac(4, 10), baseScore)
  THEN plus(Frac(4, 10), times(minus(baseScore, Frac(4, 10)), Frac(13, 10)))
  ELSE IF greater(baseScore, Frac(2, 10))
  THEN plus(Frac(2, 10), times(minus(baseScore, Frac(2, 10)), Frac(12, 10)))
  ELSE baseScore

\* let finalScore = baseScore; if (baseScore > 0.4) ... else if (baseScore > 0.2) ...
finalScore(baseScore) ==
  IF greater(baseScore, Frac(4, 10))
  THEN plus(Frac(4, 10), times(minus(baseScore, Frac(4, 10)), Frac(13, 10)))
  ELSE IF greater(baseScore, Frac(2, 10))
  THEN plus(Frac(2, 10), times(minus(baseScore, Frac(2, 10)), Frac(12, 10)))
  ELSE baseScore

\* the percentage without Math.min and Math.max
percentageUnclamped(final) == MathRound(times(final, Frac(100, 1)))

\* Math.round(Math.min(100, Math.max(0, finalScore * 100)))
percentage(final) ==
  MathRound(MathMin(Frac(100, 1), MathMax(Frac(0, 1), times(final, Frac(100, 1)))))

\* a Set that holds only x when it holds x
hasAsOnlyMember(set, x) == set = {x}

\* Set.prototype.has
has(set, x) == x \in set

\* computeMatchScore(story, transcript), the transcript being userText: the
\* returned object, with the locals partialMatches, exactMatches,
\* partialMatchesCount, baseScore and those of contentOverlap beside it; no
\* statement of the function can throw
computeMatchScore(story, userText) ==
  LET storyKeywords == distinctTokens(extractKeywords(story, 20), << >>)
      userTokens == SeqToSet(normalize(userText))
      IsMatched(k) == has(userTokens, k)
      IsPartial(k) == /\ k \notin userTokens
                      /\ \E token \in userTokens : includes(token, k) \/ includes(k, token)
      matched == SelectSeq(storyKeywords, IsMatched)
      partialMatches == SelectSeq(storyKeywords, IsPartial)
      IsMissing(k) == k \notin userTokens /\ k \notin SeqToSet(partialMatches)
      size == Len(storyKeywords)
      exactMatchScore == IF size # 0 THEN Frac(Len(matched), size) ELSE Frac(0, 1)
      partialMatchScore == IF size # 0 THEN times(Frac(Len(partialMatches), size), Frac(1, 2))
                           ELSE Frac(0, 1)
      overlap == contentOverlap(normalize(story), normalize(userText))
      baseScore == plus(plus(plus(times(exactMatchScore, Frac(6, 10)),
                                  times(partialMatchScore, Frac(2, 10))),
                             times(overlap.contentWordScore, Frac(2, 10))),
                        overlap.lengthBonus)
  IN [threw |-> FALSE,
      percentage |-> percentage(finalScore(baseScore)),
      matchedKeywords |-> sortStrings(matched),
      partialMatches |-> partialMatches,
      missingKeywords |-> sortStrings(SelectSeq(storyKeywords, IsMissing)),
      totalKeywords |-> size,
      exactMatches |-> Len(matched),
      partialMatchesCount |-> Len(partialMatches),
      baseScore |-> baseScore,
      overlap |-> overlap]

mapLowerTrim(seq) == [i \in 1..Len(seq) |-> trim(toLowerCase(seq[i]))]

IsNonEmpty(s) == s # ""

\* computeMatchScoreWithKeywords(story, transcript, predefinedKeywords), the
\* transcript being userText: the returned object (without accuracyRate and
\* totalAttempted), with the locals baseScore and those of contentOverlap beside
\* it; a call that throws returns nothing (threw).  stemmedKeywords is
\* filtered separately from originalKeywords, so stemmedKeywords[i] is
\* undefined for the last indexes when some keyword stems to "";
\* stemmedKeyword.toLowerCase() in the substring test then throws a TypeError.
computeMatchScoreWithKeywords(story, userText, predefinedKeywords) ==
  LET originalKeywords == SelectSeq(mapLowerTrim(predefinedKeywords), IsNonEmpty)
      stemmedKeywords == SelectSeq(mapStem(originalKeywords), IsNonEmpty)
      userTokens == SeqToSet(normalize(userText))
      Defined(i) == i <= Len(stemmedKeywords)
      hasExactMatch(i) == \/ has(userTokens, originalKeywords[i])
                          \/ (Defined(i) /\ has(userTokens, stemmedKeywords[i]))
      throws(i) == ~hasExactMatch(i) /\ ~Defined(i) /\ userTokens # {}
      hasSubstringMatch(i) ==
        \E token \in userTokens :
           \/ includes(token, originalKeywords[i])
           \/ includes(originalKeywords[i], token)
           \/ includes(token, stemmedKeywords[i])
           \/ includes(stemmedKeywords[i], token)
      hasPartialMatch(i) ==
        \E token \in userTokens : longestCommonSubstring(token, originalKeywords[i]) >= 3
      idx == 1..Len(originalKeywords)
      matchedAt(i) == hasExactMatch(i) \/ hasSubstringMatch(i)
      partialAt(i) == ~matchedAt(i) /\ hasPartialMatch(i)
      matched == SelectSeq([i \in idx |-> IF matchedAt(i) THEN originalKeywords[i] ELSE ""], IsNonEmpty)
      partialMatches == SelectSeq([i \in idx |-> IF partialAt(i) THEN originalKeywords[i] ELSE ""], IsNonEmpty)
      IsMissing(k) == k \notin SeqToSet(matched) /\ k \notin SeqToSet(partialMatches)
      size == Len(originalKeywords)
      exactMatchScore == IF size # 0 THEN Frac(Len(matched), size) ELSE Frac(0, 1)
      partialMatchScore == IF size # 0 THEN times(Frac(Len(partialMatches), size), Frac(1, 2))
                           ELSE Frac(0, 1)
      overlap == contentOverlap(normalize(story), normalize(userText))
      baseScore == plus(plus(plus(times(exactMatchScore, Frac(7, 10)),
                                  times(partialMatchScore, Frac(2, 10))),
                             times(overlap.contentWordScore, Frac(1, 10))),
                        overlap.lengthBonus)
  IN IF \E i \in idx : throws(i)
     THEN [threw |-> TRUE, percentage |-> 0, matchedKeywords |-> << >>,
           partialMatches |-> << >>, missingKeywords |-> << >>, totalKeywords |-> 0,
           exactMatches |-> 0, partialMatchesCount |-> 0, baseScore |-> NaN,
           overlap |-> overlap]
     ELSE [threw |-> FALSE,
           percentage |-> percentage(finalScore(baseScore)),
           matchedKeywords |-> sortStrings(matched),
           partialMatches |-> sortStrings(partialMatches),
           missingKeywords |-> sortStrings(SelectSeq(originalKeywords, IsMissing)),
           totalKeywords |-> size,
           exactMatches |-> Len(matched),
           partialMatchesCount |-> Len(partialMatches),
           baseScore |-> baseScore,
           overlap |-> overlap]

(***************************************************************************)
(* components/story-retell-app.tsx: data the component is run with.        *)
(***************************************************************************)
\* the stories of /data/stories.json (an external file): an easy story without
\* explicit keywords and a hard story with explicit keywords; no medium story
StoryData ==
  << [id |-> 1, text |-> "Dogs ran home.", difficulty |-> "easy", keyWords |-> << >>],
     [id |-> 2, text |-> "Ed has a dog.", difficulty |-> "hard", keyWords |-> <<"Ed", "dog">>] >>

\* the story lists a successful fetch may deliver
StoryPools == {StoryData, << >>}

\* result[0].transcript of the final results the recognizer may deliver
Fragments == {"fox", "dog"}

\* the difficulty buttons that the model presses
Difficulties == {"all", "medium", "hard"}

Phases == {"idle", "listening", "prep", "speaking", "evaluating", "result"}

Sessions == 1..MaxSessions

(***************************************************************************)
(* State of the component.                                                 *)
(***************************************************************************)
VARIABLES
  mounted,            \* the component is mounted
  loadState,          \* the story fetch: "pending", "done" or "failed"
  stories,            \* useState stories
  phase,              \* useState phase
  progress,           \* useState progress when a handler returns (0 or 100)
  currentStoryIndex,  \* useState currentStoryIndex (0 is null)
  result,             \* useState result (<< >> is null, else << the record >>)
  error,              \* useState error ("null" or a message)
  selectedDifficulty, \* useState selectedDifficulty
  practiceHistory,    \* useState practiceHistory
  cbStoryIndex,       \* currentStoryIndex as captured by the memoized startPractice
  narr,               \* the sessions whose speakStory promise is unsettled (isCompleted false)
  ttsCancelRef,       \* session whose narration ttsCancelRef.current cancels (0: the initial no-op)
  testSpeech,         \* the utterance of the Test TTS button: "none", "speaking" or "cancelled"
  skipped,            \* history: Skip Audio was used in the present listening phase
  recog,              \* the sessions whose recognizer was started and has not ended: its
                      \* onresult may still fire, also after stop()
  recognitionRef,     \* session whose recognizer recognitionRef.current holds (0 is null)
  capturing,          \* the sessions whose recognizer was started and neither stopped nor ended
  noCapture,          \* history: the last startRecognition started no recognizer
  voiceRate,          \* useState voiceSettings.rate, in tenths
  transcript,         \* transcriptRef.current
  transcriptOrigin,   \* history: the session of each fragment appended since the last reset
  timers,             \* the live intervals (window.setInterval not yet cleared)
  timerRef,           \* timerRef.current: the id of an interval (0 is null)
  sessCount,          \* number of sessions started
  scored,             \* history: what the last evaluation read and used (<< >>: none yet)
  calls,              \* history: the calls of the timer callback that ran last, in order
  argStory,           \* a direct call of the scoring library: its story argument
  argTranscript,      \* its transcript argument
  argKeywords,        \* its predefinedKeywords argument (read by the explicit variant only)
  returned            \* << >> before the call, << the outcome >> after it

vars == << mounted, loadState, stories, phase, progress, currentStoryIndex, result, error,
           selectedDifficulty, practiceHistory, cbStoryIndex, narr, ttsCancelRef, testSpeech, skipped,
           recog,
           recognitionRef, capturing,
           noCapture, voiceRate, transcript,
           transcriptOrigin, timers, timerRef, sessCount, scored, calls,
           argStory, argTranscript, argKeywords, returned >>

appVars == << mounted, loadState, stories, phase, progress, currentStoryIndex, result, error,
              selectedDifficulty, practiceHistory, cbStoryIndex, narr, ttsCancelRef, testSpeech, skipped,
           recog,
              recognitionRef, capturing, noCapture, voiceRate, transcript, transcriptOrigin, timers,
              timerRef,
              sessCount, scored, calls >>

scoreVars == << argStory, argTranscript, argKeywords, returned >>

loadVars == << loadState, stories >>

uiVars == << phase, progress, currentStoryIndex, result, error, selectedDifficulty,
             practiceHistory >>

ttsVars == << narr, ttsCancelRef, testSpeech, skipped >>

recoVars == << recog, recognitionRef, capturing, noCapture, transcript, transcriptOrigin >>

timerVars == << timers, timerRef >>

\* the component after its first render
AppInit ==
  /\ mounted = TRUE
  /\ loadState = "pending"
  /\ stories = << >>
  /\ phase = "idle"
  /\ progress = 0
  /\ currentStoryIndex = 0
  /\ result = << >>
  /\ error = "null"
  /\ selectedDifficulty = "all"
  /\ practiceHistory = << >>
  /\ cbStoryIndex = 0
  /\ narr = {}
  /\ ttsCancelRef = 0
  /\ testSpeech = "none"
  /\ skipped = FALSE
  /\ recog = {}
  /\ recognitionRef = 0
  /\ capturing = {}
  /\ noCapture = FALSE
  /\ voiceRate = 8
  /\ transcript = ""
  /\ transcriptOrigin = << >>
  /\ timers = {}
  /\ timerRef = 0
  /\ sessCount = 0
  /\ scored = << >>
  /\ calls = << >>

\* the component alone: the scoring library is called by its callbacks only
Init ==
  /\ AppInit
  /\ argStory = "" /\ argTranscript = "" /\ argKeywords = << >> /\ returned = << >>

(***************************************************************************)
(* Helpers of the component.                                               *)
(***************************************************************************)
\* a cancel handle that leaves the narration speaking
ttsCancelLeavingNarration(n, ref) == n

\* ttsCancelRef.current(): settles the narration it belongs to unless isCompleted
ttsCancel(n, ref) == n \ {ref}

\* synthesis.cancel() on the utterance of the Test TTS button
synthesisCancel(speech) == IF speech = "speaking" THEN "cancelled" ELSE speech

\* a cancel handle that calls synthesis.cancel() whether isCompleted or not
ttsCancelSpeechWhetherCompleted(speech, n, ref) == synthesisCancel(speech)

\* ttsCancelRef.current() on other speech: synthesis.cancel() removes every
\* utterance from the queue, unless isCompleted
ttsCancelSpeech(speech, n, ref) == IF ref \in n THEN synthesisCancel(speech) ELSE speech

\* a stopRecognition that clears the handle without stopping the recognizer
stopRecognitionWithoutStop(active, ref) == active

\* stopRecognition: recognitionRef.current.stop() if a recognizer is held; the
\* captures still active afterwards
stopRecognition(active, ref) == active \ {ref}

\* a clearInterval that leaves the interval live
clearIntervalLeavingIt(ts, ref) == ts

\* window.clearInterval(timerRef.current) guarded by if (timerRef.current)
clearInterval(ts, ref) == IF ref # 0 THEN {t \in ts : t.id # ref} ELSE ts

\* startTimedPhase without its clearInterval: the interval timerRef.current names
\* stays live beside the new one
startTimedPhaseKeepingPrevious(ts, ref, new) == ts \cup {new}

\* startTimedPhase(ms, onDone): the live intervals once the new one is installed
startTimedPhase(ts, ref, new) == clearInterval(ts, ref) \cup {new}

\* stories.filter(story => story.difficulty === selectedDifficulty), as the
\* sequence of the original indexes of the stories kept
RECURSIVE filterIndexes(_, _, _)
filterIndexes(list, diff, i) ==
  IF i > Len(list) THEN << >>
  ELSE (IF diff = "all" \/ list[i].difficulty = diff THEN << i >> ELSE << >>)
       \o filterIndexes(list, diff, i + 1)

\* the filter without its difficulty test: every story is kept
filteredStoriesOfAnyDifficulty(list, diff) == filterIndexes(list, "all", 1)

filteredStories(list, diff) == filterIndexes(list, diff, 1)

\* a continuation of startPractice that moves on to prep as soon as the narration
\* settles during listening
afterSpeakStoryLeavingListening(ph) == IF ph = "listening" THEN "prep" ELSE ph

\* what the continuation of startPractice after "await speakStory" does to the phase
afterSpeakStory(ph) == ph

\* the phase a Cancel leaves
phaseAfterCancel == "idle"

\* an onDone of the listening interval that cancels the narration last
listenDoneCancellingLast ==
  << "setPhase prep", "startTimedPhase PREP_MS", "ttsCancelRef.current" >>

\* the calls of the listening interval's onDone, in the order of the source
listenDone == << "ttsCancelRef.current", "setPhase prep", "startTimedPhase PREP_MS" >>

\* the calls of the prep interval's onDone, in the order of the source
prepDone ==
  << "beep start", "setPhase speaking", "startRecognition", "startTimedPhase SPEAK_MS" >>

\* the calls of the speaking interval's onDone, in the order of the source; an
\* exception of the scoring call ends the callback there
speakDone(threw) ==
  << "beep end", "stopRecognition", "setPhase evaluating", "read transcriptRef.current",
     "score" >>
  \o (IF threw THEN << >> ELSE << "setResult", "setPracticeHistory", "setPhase result" >>)

\* a history that keeps the new session only
prependSessionDroppingPrevious(prev, session) == << session >>

\* a history that keeps every previous record
prependSessionKeepingAll(prev, session) == << session >> \o prev

\* the updater of setPracticeHistory: prev => [session, ...prev.slice(0, 9)]
prependSession(prev, session) ==
  << session >> \o SubSeq(prev, 1, IF Len(prev) < 9 THEN Len(prev) ELSE 9)

STORY_LISTEN_MS == 30000

PREP_MS == 5000

SPEAK_MS == 40000

\* the speech rates the slider of the voice settings is moved to, in tenths
\* (the slider runs from 0.5 to 1.5; 0.8 is the initial rate)
VoiceRates == {8, 15}

\* text.split(/\s+/).length: one more than the number of runs of white space
splitLength(text) ==
  Cardinality({i \in 1..Len(text) :
                 IsSpace(CharAt(text, i)) /\ (i = 1 \/ ~IsSpace(CharAt(text, i - 1)))}) + 1

\* (text || "").replace(/\s+/g, " ").trim()
collapseSpaces(text) ==
  LET words == splitWords(text)
  IN concatRange([i \in 1..Len(words) |-> IF i = 1 THEN words[i] ELSE " " \o words[i]],
                 1, Len(words))

\* /^\d+\.$/.test(str)
IsStandaloneNumber(str) ==
  /\ Len(str) >= 2
  /\ CharAt(str, Len(str)) = "."
  /\ \A i \in 1..(Len(str) - 1) : IndexIn(CharAt(str, i), DigitChars) > 0

IsSentence(str) == Len(str) > 0 /\ ~IsStandaloneNumber(str)

\* splitIntoSentences(text): the text is cut after every ., ! or ? that white space
\* follows; the pieces are trimmed, empty pieces and standalone numbers dropped
splitIntoSentences(text) ==
  LET cleaned == collapseSpaces(text)
      IsCut(i) == /\ i \in 1..(Len(cleaned) - 1)
                  /\ CharAt(cleaned, i) \in {".", "!", "?"}
                  /\ IsSpace(CharAt(cleaned, i + 1))
      ends == {i \in 1..Len(cleaned) : IsCut(i) \/ i = Len(cleaned)}
      nth(k) == CHOOSE i \in ends : Cardinality({j \in ends : j < i}) = k - 1
      piece(k) == trim(SubSeq(cleaned, IF k = 1 THEN 1 ELSE nth(k - 1) + 1, nth(k)))
  IN SelectSeq([k \in 1..Cardinality(ends) |-> piece(k)], IsSentence)

\* an estimate without the minimum duration
estimateStoryDurationWithoutMinimum(text, rate) ==
  LET wordCount == splitLength(text)
      sentenceCount == Len(splitIntoSentences(text))
      wordsPerMinute == 150
      pauseTime == times(Frac(sentenceCount, 1), Frac(5, 10))
      baseDurationSeconds == Frac(wordCount * 60 * 10, wordsPerMinute * rate)
      totalDurationSeconds == plus(plus(baseDurationSeconds, pauseTime), Frac(2, 1))
  IN times(totalDurationSeconds, Frac(1000, 1))

\* estimateStoryDuration(text) with voiceSettings.rate = rate / 10, in milliseconds
estimateStoryDuration(text, rate) ==
  LET wordCount == splitLength(text)
      sentenceCount == Len(splitIntoSentences(text))
      wordsPerMinute == 150
      pauseTime == times(Frac(sentenceCount, 1), Frac(5, 10))
      baseDurationSeconds == Frac(wordCount * 60 * 10, wordsPerMinute * rate)
      totalDurationSeconds == plus(plus(baseDurationSeconds, pauseTime), Frac(2, 1))
      minDurationSeconds == MathMax(Frac(15, 1), times(Frac(wordCount, 1), Frac(3, 10)))
  IN MathMax(times(totalDurationSeconds, Frac(1000, 1)),
             times(minDurationSeconds, Frac(1000, 1)))

\* the id window.setInterval returns: ids grow in the order the intervals are made,
\* and a session makes one interval per phase
KindNo(kind) == CASE kind = "listening" -> 1 [] kind = "prep" -> 2 [] kind = "speaking" -> 3

timerId(sess, kind) == 3 * (sess - 1) + KindNo(kind)

\* an interval with the variables its callback captured
Timer(kind, ms, sess, story, idx, cb) ==
  [id |-> timerId(sess, kind), kind |-> kind, ms |-> ms, sess |-> sess, story |-> story,
   idx |-> idx, cbIdx |-> cb]

\* the keyword list the evaluation takes: stories[currentStoryIndex]?.keyWords || [],
\* with the currentStoryIndex that the callback captured
storyKeywords(list, cb) == IF cb \in 1..Len(list) THEN list[cb].keyWords ELSE << >>

\* the scoring call of the speaking callback: the explicit keywords if the list
\* it took is not empty, the extracted keywords otherwise
evaluate(story, tr, kw) == IF Len(kw) > 0 THEN computeMatchScoreWithKeywords(story, tr, kw)
                           ELSE computeMatchScore(story, tr)

\* the transcripts that up to n final fragments make
RECURSIVE transcriptsUpTo(_)
transcriptsUpTo(n) ==
  IF n = 0 THEN {""}
  ELSE transcriptsUpTo(n - 1) \cup {t \o f \o " " : t \in transcriptsUpTo(n - 1), f \in Fragments}

\* evaluate, tabulated over the arguments the model can call it with: the pairs
\* << arguments, value >>
evaluateTable ==
  {<< a, evaluate(a[1], a[2], a[3]) >> :
     a \in {StoryData[i].text : i \in 1..Len(StoryData)}
           \X {trim(t) : t \in transcriptsUpTo(MaxFrags)}
           \X ({StoryData[i].keyWords : i \in 1..Len(StoryData)} \cup {<< >>})}

\* estimateStoryDuration, tabulated over the arguments the model can call it
\* with: the pairs << arguments, value >>
estimateTable ==
  {<< a, estimateStoryDuration(a[1], a[2]) >> :
     a \in {StoryData[i].text : i \in 1..Len(StoryData)} \X VoiceRates}

(***************************************************************************)
(* Handlers.                                                               *)
(***************************************************************************)
\* the fetch effect: setStories on success, setError on failure
LoadStories ==
  /\ mounted /\ loadState = "pending"
  /\ \/ \E pool \in StoryPools :
          /\ stories' = pool
          /\ loadState' = "done"
          /\ cbStoryIndex' = currentStoryIndex
          /\ UNCHANGED error
     \/ /\ error' = "Failed to load stories. Please refresh."
        /\ loadState' = "failed"
        /\ UNCHANGED << stories, cbStoryIndex >>
  /\ UNCHANGED << mounted, calls, scoreVars, voiceRate, phase, progress, currentStoryIndex, result, selectedDifficulty,
                  practiceHistory,  ttsVars, recoVars, timerVars, sessCount,
                  scored >>

\* a start that is accepted in every phase
startAcceptedInAnyPhase(ph) == TRUE

\* the Start button is enabled, and the Space key starts, in idle and result only
startAccepted(ph) == ph \in {"idle", "result"}


\* startPractice, from the Start button or the Space key (both offered in idle and
\* result).  speakStory either installs its cancel handle and speaks, or rejects at
\* once because window.speechSynthesis is missing.
StartPractice ==
  /\ mounted /\ startAccepted(phase)
  /\ result' = << >>
  /\ LET filtered == filteredStories(stories, selectedDifficulty) IN
       IF Len(stories) = 0 \/ Len(filtered) = 0
       THEN /\ error' = IF Len(stories) = 0 THEN "Stories not loaded yet. Please wait a moment."
                        ELSE "No stories available for " \o selectedDifficulty
                             \o " difficulty level."
            /\ UNCHANGED << phase, progress, currentStoryIndex, ttsVars, timerVars, sessCount,
                            scored >>
       ELSE \E idx \in 1..Len(filtered), storyDuration \in estimateTable :
              LET sess == sessCount + 1
                  new == Timer("listening", storyDuration[2], sess, filtered[idx], idx,
                               cbStoryIndex)
              IN /\ storyDuration[1] = << stories[filtered[idx]].text, voiceRate >>
                 /\ sessCount < MaxSessions
                 /\ error' = "null"
                 /\ currentStoryIndex' = filtered[idx]
                 /\ phase' = "listening"
                 /\ timers' = startTimedPhase(timers, timerRef, new)
                 /\ timerRef' = new.id
                 /\ progress' = 0
                 /\ sessCount' = sess
                 /\ scored' = << >>
                 /\ \/ /\ narr' = narr \cup {sess}
                       /\ ttsCancelRef' = sess
                       /\ testSpeech' = synthesisCancel(testSpeech)
                       /\ skipped' = FALSE
                    \/ UNCHANGED ttsVars
  /\ UNCHANGED << mounted, calls, scoreVars, voiceRate, loadVars, selectedDifficulty,
                  practiceHistory, cbStoryIndex, recoVars >>

\* the listening interval finds elapsed >= ms: it clears timerRef.current and runs
\* onDone: cancel the narration, enter prep, start the prep interval
ListenExpire ==
  \E t \in timers :
    /\ t.kind = "listening"
    /\ LET new == Timer("prep", Frac(PREP_MS, 1), t.sess, t.story, t.idx, t.cbIdx)
       IN /\ narr' = ttsCancel(narr, ttsCancelRef)
          /\ testSpeech' = ttsCancelSpeech(testSpeech, narr, ttsCancelRef)
          /\ skipped' = FALSE
          /\ phase' = "prep"
          /\ timers' = startTimedPhase(clearInterval(timers, timerRef), 0, new)
          /\ timerRef' = new.id
          /\ progress' = 0
          /\ calls' = listenDone
    /\ UNCHANGED << mounted, scoreVars, voiceRate, loadVars, currentStoryIndex, result, error, selectedDifficulty,
                    practiceHistory, cbStoryIndex, ttsCancelRef, recoVars,
                    sessCount, scored >>

\* the prep interval expires: begin cue, enter speaking, startRecognition, start the
\* speaking interval.  startRecognition resets the transcript, then either starts
\* a recognizer and keeps it in recognitionRef, or keeps none (no SpeechRecognition
\* constructor, or recognition.start() throws).
PrepExpire ==
  \E t \in timers :
    /\ t.kind = "prep"
    /\ LET new == Timer("speaking", Frac(SPEAK_MS, 1), t.sess, t.story, t.idx, t.cbIdx)
       IN /\ phase' = "speaking"
          /\ transcript' = ""
          /\ transcriptOrigin' = << >>
          /\ \/ /\ recog' = recog \cup {t.sess}
                /\ recognitionRef' = t.sess
                /\ capturing' = capturing \cup {t.sess}
                /\ noCapture' = FALSE
             \/ /\ noCapture' = TRUE
                /\ UNCHANGED << recog, recognitionRef, capturing >>
          /\ timers' = startTimedPhase(clearInterval(timers, timerRef), 0, new)
          /\ timerRef' = new.id
          /\ progress' = 0
          /\ calls' = prepDone
    /\ UNCHANGED << mounted, scoreVars, voiceRate, loadVars, currentStoryIndex, result, error, selectedDifficulty,
                    practiceHistory, cbStoryIndex, ttsVars, sessCount, scored >>

\* the speaking interval expires: end cue, stopRecognition, enter evaluating,
\* score the trimmed transcript, set the result, prepend the practice record,
\* enter result.  An exception of the scoring call leaves the callback there.
SpeakExpire ==
  \E t \in timers :
    /\ t.kind = "speaking"
    /\ capturing' = stopRecognition(capturing, recognitionRef)
    /\ recognitionRef' = 0
    /\ timers' = clearInterval(timers, timerRef)
    /\ timerRef' = 0
    /\ progress' = 100
    /\ \E tr \in {trim(transcript)}, kw \in {storyKeywords(stories, t.cbIdx)} :
         \E e \in evaluateTable :
           /\ e[1] = << stories[t.story].text, tr, kw >>
           /\ scored' = << [sess |-> t.sess, story |-> t.story,
                            method |-> IF Len(kw) > 0 THEN "keywords" ELSE "extracted",
                            keywords |-> kw, transcript |-> tr, origin |-> transcriptOrigin,
                            noCapture |-> noCapture,
                            threw |-> e[2].threw] >>
           /\ calls' = speakDone(e[2].threw)
           /\ IF e[2].threw
              THEN /\ phase' = "evaluating"
                   /\ UNCHANGED << result, practiceHistory >>
              ELSE /\ result' = << [percentage |-> e[2].percentage,
                                    matchedKeywords |-> e[2].matchedKeywords,
                                    missingKeywords |-> e[2].missingKeywords,
                                    transcript |-> tr,
                                    totalKeywords |-> e[2].totalKeywords] >>
                   /\ practiceHistory' =
                        prependSession(practiceHistory,
                                       [storyIndex |-> t.idx, sess |-> t.sess,
                                        score |-> e[2].percentage])
                   /\ phase' = "result"
    /\ UNCHANGED << mounted, scoreVars, voiceRate, loadVars, currentStoryIndex, error, selectedDifficulty,
                    cbStoryIndex, ttsVars, recog, noCapture, transcript, transcriptOrigin, sessCount >>

\* utterance.onend or utterance.onerror while the promise is unsettled; the
\* continuation of startPractice then runs and changes nothing
NarrationSettles ==
  \E s \in narr :
    /\ narr' = narr \ {s}
    /\ phase' = afterSpeakStory(phase)
    /\ UNCHANGED << testSpeech, skipped, mounted, calls, scoreVars, voiceRate, loadVars, progress, currentStoryIndex, result, error,
                    selectedDifficulty, practiceHistory, cbStoryIndex,
                    ttsCancelRef, recoVars, timerVars, sessCount, scored >>

\* Skip Audio button or the S key, offered in listening: ttsCancelRef.current().
\* A narration it settles resumes the continuation of startPractice.
SkipAudio ==
  /\ mounted /\ phase = "listening"
  /\ narr' = ttsCancel(narr, ttsCancelRef)
  /\ testSpeech' = ttsCancelSpeech(testSpeech, narr, ttsCancelRef)
  /\ skipped' = TRUE
  /\ phase' = IF ttsCancelRef \in narr THEN afterSpeakStory(phase) ELSE phase
  /\ UNCHANGED << mounted, calls, scoreVars, voiceRate, loadVars, progress, currentStoryIndex,
                  result, error, selectedDifficulty, practiceHistory, cbStoryIndex,
                  ttsCancelRef, recoVars, timerVars, sessCount, scored >>

\* Cancel button or the Escape key, offered in listening, prep and speaking:
\* cancel the narration, stopRecognition, reset the displayed state
Cancel ==
  /\ mounted /\ phase \in {"listening", "prep", "speaking"}
  /\ narr' = ttsCancel(narr, ttsCancelRef)
  /\ testSpeech' = ttsCancelSpeech(testSpeech, narr, ttsCancelRef)
  /\ skipped' = FALSE
  /\ capturing' = stopRecognition(capturing, recognitionRef)
  /\ recognitionRef' = 0
  /\ phase' = phaseAfterCancel
  /\ progress' = 0
  /\ result' = << >>
  /\ currentStoryIndex' = 0
  /\ UNCHANGED << mounted, calls, scoreVars, voiceRate, loadVars, error, selectedDifficulty, practiceHistory,
                  cbStoryIndex, ttsCancelRef, recog, noCapture, transcript, transcriptOrigin,
                  timerVars, sessCount, scored >>

\* Try Same Story button (shown with a result) or the R key, offered in result
TrySameStory ==
  /\ mounted /\ phase = "result"
  /\ phase' = "idle"
  /\ progress' = 0
  /\ result' = << >>
  /\ currentStoryIndex' = 0
  /\ UNCHANGED << mounted, calls, scoreVars, voiceRate, loadVars, error, selectedDifficulty, practiceHistory,
                  cbStoryIndex, ttsVars, recoVars, timerVars, sessCount, scored >>

\* New Story button (shown with a result) or the N key, offered in result
NewStory ==
  /\ mounted /\ phase = "result"
  /\ result' = << >>
  /\ phase' = "idle"
  /\ progress' = 0
  /\ UNCHANGED << mounted, calls, scoreVars, voiceRate, loadVars, currentStoryIndex, error, selectedDifficulty,
                  practiceHistory, cbStoryIndex, ttsVars, recoVars, timerVars,
                  sessCount, scored >>

\* a difficulty button, disabled while a session is in progress; the new value
\* makes useCallback build startPractice anew, capturing currentStoryIndex
SetDifficulty ==
  /\ mounted /\ phase \in {"idle", "result"}
  /\ \E d \in Difficulties \ {selectedDifficulty} : selectedDifficulty' = d
  /\ cbStoryIndex' = currentStoryIndex
  /\ UNCHANGED << mounted, calls, scoreVars, voiceRate, loadVars, phase, progress, currentStoryIndex, result, error,
                  practiceHistory,  ttsVars, recoVars, timerVars, sessCount,
                  scored >>

\* a change in the voice settings panel (voice, rate or volume), available in
\* every phase: speakStory and estimateStoryDuration change, so useCallback builds
\* startPractice anew, capturing currentStoryIndex
SetVoiceSettings ==
  /\ mounted
  /\ \E r \in VoiceRates :
       /\ r # voiceRate \/ cbStoryIndex # currentStoryIndex
       /\ voiceRate' = r
  /\ cbStoryIndex' = currentStoryIndex
  /\ UNCHANGED << mounted, calls, scoreVars, loadVars, uiVars, ttsVars, recoVars, timerVars, sessCount, scored >>

\* recognition.onresult with one final result: the chunk and a space are appended
RecognitionFinal ==
  \E s \in recog, f \in Fragments :
    /\ Len(transcriptOrigin) < MaxFrags
    /\ transcript' = transcript \o f \o " "
    /\ transcriptOrigin' = Append(transcriptOrigin, s)
    /\ UNCHANGED << mounted, calls, scoreVars, voiceRate, loadVars, uiVars, cbStoryIndex, ttsVars, recog,
                    recognitionRef, capturing, noCapture, timerVars, sessCount, scored >>

\* recognition.onend: the recognizer delivers nothing more
RecognitionEnd ==
  \E s \in recog :
    /\ recog' = recog \ {s}
    /\ capturing' = capturing \ {s}
    /\ UNCHANGED << mounted, calls, scoreVars, voiceRate, loadVars, uiVars, cbStoryIndex, ttsVars,
                    recognitionRef, noCapture, transcript, transcriptOrigin, timerVars,
                    sessCount, scored >>

\* the cleanup effect on unmount: cancel the narration, stopRecognition, clear
\* the interval timerRef.current names
Unmount ==
  /\ mounted
  /\ mounted' = FALSE
  /\ narr' = ttsCancel(narr, ttsCancelRef)
  /\ testSpeech' = ttsCancelSpeech(testSpeech, narr, ttsCancelRef)
  /\ skipped' = FALSE
  /\ capturing' = stopRecognition(capturing, recognitionRef)
  /\ recognitionRef' = 0
  /\ timers' = clearInterval(timers, timerRef)
  /\ UNCHANGED << loadVars, uiVars, cbStoryIndex, ttsCancelRef, recog, noCapture,
                  transcript, transcriptOrigin, timerRef, sessCount, scored, calls,
                  scoreVars, voiceRate >>

Next ==
  \/ LoadStories
  \/ StartPractice
  \/ ListenExpire
  \/ PrepExpire
  \/ SpeakExpire
  \/ NarrationSettles
  \/ SkipAudio
  \/ Cancel
  \/ TrySameStory
  \/ NewStory
  \/ SetDifficulty
  \/ SetVoiceSettings
  \/ RecognitionFinal
  \/ RecognitionEnd
  \/ Unmount

Spec == Init /\ [][Next]_vars

(***************************************************************************)
(* The session together with the Test TTS button, which speaks through the *)
(* same speechSynthesis queue as the narration.  The handlers that touch   *)
(* neither the speech queue nor the cancel handle (retry, new story,       *)
(* difficulty, voice settings, recognizer events) are left out.            *)
(***************************************************************************)
\* the Test TTS button: synthesis.cancel(), then synthesis.speak(utterance).  The
\* narration it removes from the queue settles when its end or error event is
\* delivered (NarrationSettles).
TestTTS ==
  /\ mounted
  /\ testSpeech' = "speaking"
  /\ UNCHANGED << skipped, mounted, calls, scoreVars, voiceRate, loadVars, uiVars, cbStoryIndex, narr,
                  ttsCancelRef, recoVars, timerVars, sessCount, scored >>

\* the utterance of the Test TTS button is spoken to its end
TestSpeechEnds ==
  /\ testSpeech = "speaking"
  /\ testSpeech' = "none"
  /\ UNCHANGED << skipped, mounted, calls, scoreVars, voiceRate, loadVars, uiVars, cbStoryIndex, narr,
                  ttsCancelRef, recoVars, timerVars, sessCount, scored >>

NarrationNext ==
  \/ LoadStories
  \/ StartPractice
  \/ ListenExpire
  \/ PrepExpire
  \/ SpeakExpire
  \/ NarrationSettles
  \/ SkipAudio
  \/ Cancel
  \/ Unmount
  \/ TestTTS
  \/ TestSpeechEnds

NarrationSpec == Init /\ [][NarrationNext]_vars

(***************************************************************************)
(* The session without Cancel and without unmount, with fair timers: a     *)
(* live interval ticks every 50 ms, so an expiry that stays possible       *)
(* happens.                                                                *)
(***************************************************************************)
LiveNext ==
  \/ LoadStories
  \/ StartPractice
  \/ ListenExpire
  \/ PrepExpire
  \/ SpeakExpire
  \/ NarrationSettles
  \/ SkipAudio
  \/ TrySameStory
  \/ NewStory
  \/ SetDifficulty
  \/ SetVoiceSettings
  \/ RecognitionFinal
  \/ RecognitionEnd

LiveSpec ==
  /\ Init
  /\ [][LiveNext]_vars
  /\ WF_vars(ListenExpire)
  /\ WF_vars(PrepExpire)
  /\ WF_vars(SpeakExpire)

(***************************************************************************)
(* The scoring library called directly, on arguments of any kind.          *)
(***************************************************************************)
\* the story texts of the direct calls: empty, stopwords only, and stories
ScoreStories == {"", "It is.", "Dogs ran home.", "Ed has a dog.", "The dog ran. The dog ran!"}

\* the transcripts of the direct calls
ScoreTranscripts ==
  {"", "fox", "dog", "The dog ran", "dogs ran home", "a hotdog", "hotdog ran home",
   "Ed has a dog dog dog", "a fox jumped over a sleeping dog", "dog dog"}

\* the keyword lists of the direct calls
ScoreKeywords ==
  {<< >>, << "Ed", "dog" >>, << "dog", "home" >>, << "Doghouse" >>, << " Dog", "dog" >>,
   << "Ed", "fox", "fox", "dog" >>, << "fox", "jumped", "lazy", "dog" >>}

ScoreInit ==
  /\ AppInit
  /\ argStory \in ScoreStories
  /\ argTranscript \in ScoreTranscripts
  /\ argKeywords \in ScoreKeywords
  /\ returned = << >>

\* a call computeMatchScore(story, transcript)
CallComputeMatchScore ==
  /\ returned = << >>
  /\ returned' = << [variant |-> "generic", keywords |-> << >>]
                    @@ computeMatchScore(argStory, argTranscript) >>
  /\ UNCHANGED << appVars, argStory, argTranscript, argKeywords >>

\* a call computeMatchScoreWithKeywords(story, transcript, predefinedKeywords)
CallComputeMatchScoreWithKeywords ==
  /\ returned = << >>
  /\ returned' = << [variant |-> "explicit", keywords |-> argKeywords]
                    @@ computeMatchScoreWithKeywords(argStory, argTranscript, argKeywords) >>
  /\ UNCHANGED << appVars, argStory, argTranscript, argKeywords >>

ScoreNext ==
  \/ CallComputeMatchScore
  \/ CallComputeMatchScoreWithKeywords

ScoreSpec == ScoreInit /\ [][ScoreNext]_vars

(***************************************************************************)
(* The text functions called directly: normalize, stem and extractKeywords *)
(* of lib/scoring.ts and estimateStoryDuration of the component.           *)
(***************************************************************************)
\* the texts of the direct calls
TextInputs ==
  {"", "It is.", "Dogs ran home.", "The glass fell.", "She sings daily.",
   "Donkey buffalo crocodile ox ox.", "Ed tried. Ed cried!", "Riding is fun",
   "A. B. C. D. E. F. G. H. I. J. K. L. M. N.", "a b c d e f g h i j k l m n o",
   "A. B. C. D. E. F. G. H. I. J. K. L.",
   "One. Two. Three.", "one two three four"}

\* the single tokens of the direct calls of stem
StemInputs ==
  {"dog", "dogs", "cities", "tried", "walked", "running", "riding", "feeding",
   "lilies", "quickly", "kindness", "payment", "glass", "Went", "sing"}

\* the values of max of the direct calls of extractKeywords (15 is the default,
\* 20 the value computeMatchScore passes)
MaxInputs == {1, 2, 15, 20}

\* the speech rates of the direct calls of estimateStoryDuration, in tenths:
\* the ends of the slider and the initial rate
EstimateRates == {5, 8, 15}

TextInit ==
  /\ AppInit
  /\ argStory \in TextInputs \cup StemInputs
  /\ argTranscript = ""
  /\ argKeywords = << >>
  /\ returned = << >>

\* a call normalize(text)
CallNormalize ==
  /\ returned = << >>
  /\ argStory \in TextInputs
  /\ returned' = << [fn |-> "normalize", value |-> normalize(argStory)] >>
  /\ UNCHANGED << appVars, argStory, argTranscript, argKeywords >>

\* a call stem(token)
CallStem ==
  /\ returned = << >>
  /\ argStory \in StemInputs
  /\ returned' = << [fn |-> "stem", value |-> stem(argStory)] >>
  /\ UNCHANGED << appVars, argStory, argTranscript, argKeywords >>

\* a call extractKeywords(text, max)
CallExtractKeywords ==
  /\ returned = << >>
  /\ argStory \in TextInputs
  /\ \E max \in MaxInputs :
        returned' = << [fn |-> "extractKeywords", max |-> max,
                        value |-> extractKeywords(argStory, max)] >>
  /\ UNCHANGED << appVars, argStory, argTranscript, argKeywords >>

\* a call estimateStoryDuration(text) with voiceSettings.rate = rate / 10
CallEstimateStoryDuration ==
  /\ returned = << >>
  /\ argStory \in TextInputs
  /\ \E rate \in EstimateRates :
        returned' = << [fn |-> "estimateStoryDuration", rate |-> rate,
                        value |-> estimateStoryDuration(argStory, rate)] >>
  /\ UNCHANGED << appVars, argStory, argTranscript, argKeywords >>

TextNext ==
  \/ CallNormalize
  \/ CallStem
  \/ CallExtractKeywords
  \/ CallEstimateStoryDuration

TextSpec == TextInit /\ [][TextNext]_vars

(***************************************************************************)
(* The practice history alone: the updater that the speaking callback      *)
(* hands to setPracticeHistory, applied once per completed session, for    *)
(* more sessions than the history keeps.                                   *)
(***************************************************************************)
\* the number of completed sessions followed
MaxCompleted == 12

\* the percentages of the completed sessions
HistoryScores == {40, 90}

\* a session completes with some percentage: setPracticeHistory(prev =>
\* [session, ...prev.slice(0, 9)])
SavePracticeSession ==
  /\ sessCount < MaxCompleted
  /\ \E pct \in HistoryScores :
       practiceHistory' = prependSession(practiceHistory,
                                         [storyIndex |-> 1, sess |-> sessCount + 1,
                                          score |-> pct])
  /\ sessCount' = sessCount + 1
  /\ UNCHANGED << mounted, loadVars, phase, progress, currentStoryIndex, result, error,
                  selectedDifficulty, cbStoryIndex, ttsVars, recoVars, voiceRate, timerVars,
                  scored, calls, scoreVars >>

HistoryNext == SavePracticeSession

HistorySpec == Init /\ [][HistoryNext]_vars

(***************************************************************************)
(* Properties.                                                             *)
(***************************************************************************)
\* C1: after Cancel no phase timer is live: whenever the phase is idle there is
\* no live interval whose callback can still fire.
C1_IdleHasNoLiveTimer == phase = "idle" => timers = {}

\* C2: from idle the phase stays idle until the next start: a step that is not a
\* start changes no phase, starts no capture, scores nothing and adds no
\* practice record.
C2_IdleUntilNextStart ==
  [][(phase = "idle" /\ ~StartPractice)
       => /\ phase' = "idle"
          /\ recog' \subseteq recog
          /\ scored' = scored
          /\ practiceHistory' = practiceHistory]_vars

\* the transitions of the phase; a step from speaking to result passes
\* evaluating within the step
LegalTransitions ==
  { << "idle", "listening" >>, << "listening", "prep" >>, << "prep", "speaking" >>,
    << "speaking", "evaluating" >>, << "speaking", "result" >>,
    << "evaluating", "result" >>,
    << "listening", "idle" >>, << "prep", "idle" >>, << "speaking", "idle" >>,
    << "result", "idle" >> }

\* C3: every change of phase is one of the listed transitions; in particular
\* listening is entered only from idle and prep only from listening.
C3_OnlyListedTransitions ==
  [][phase' # phase => << phase, phase' >> \in LegalTransitions]_vars

\* C4: at every instant at most one phase timer is live.
C4_AtMostOneLiveTimer == Cardinality(timers) <= 1

\* C4 witness: the second session is listening on its own interval and no session
\* has completed, so the first session was cancelled and the interval it left
\* live was released when the second session installed its own.
C4_RestartAfterCancel ==
  /\ phase = "listening"
  /\ sessCount = 2
  /\ practiceHistory = << >>
  /\ timers # {}
  /\ \A t \in timers : t.sess = 2 /\ t.id = timerRef

C6_StartReachesResult == (phase = "listening") ~> (phase = "result")

\* C7: the transcript scored for a session holds no fragment delivered by the
\* capture of another session.
C7_SessionIsolation ==
  scored # << >> => \A i \in 1..Len(scored[1].origin) : scored[1].origin[i] = scored[1].sess

\* C8: a session is scored with the explicit keywords of the story it narrated
\* when that list is not empty, and with extracted keywords only when it is empty.
C8_OwnKeywords ==
  scored # << >> =>
    /\ scored[1].keywords = stories[scored[1].story].keyWords
    /\ scored[1].method = IF Len(stories[scored[1].story].keyWords) > 0 THEN "keywords"
                       ELSE "extracted"

\* C9: evaluating cannot fail: the scoring call never throws and no session
\* remains in evaluating.
C9_EvaluatingCannotFail ==
  /\ phase # "evaluating"
  /\ scored # << >> => ~scored[1].threw

\* no story is available: the list is empty or holds no story of the selected
\* difficulty
NoStoryAvailable ==
  \A i \in 1..Len(stories) :
    selectedDifficulty # "all" /\ stories[i].difficulty # selectedDifficulty

\* C10: a start with no story available sets an error and changes neither the
\* phase nor the timers, the narration or the capture, and starts no session.
C10_StartWithoutStoryFails ==
  [][(StartPractice /\ NoStoryAvailable)
       => /\ error' # "null"
          /\ phase' = phase
          /\ UNCHANGED << timers, timerRef, narr, ttsCancelRef, recog, recognitionRef,
                          transcript, sessCount >>]_vars

\* C10 witness: a start under the medium difficulty, of which there is no story,
\* has failed with the error and the component is idle, no session started.
C10_NotReadyReported ==
  /\ error = "No stories available for medium difficulty level."
  /\ Len(stories) > 0
  /\ selectedDifficulty = "medium"
  /\ phase = "idle"
  /\ sessCount = 0
  /\ timers = {}

\* a call b is made in the sequence only after a call a
CalledBefore(seq, a, b) ==
  \A j \in 1..Len(seq) : seq[j] = b => \E i \in 1..(j - 1) : seq[i] = a

\* C11: in every timer callback (a) the narration is cancelled before the phase is
\* set to prep, (b) the capture is started before the speaking interval is started,
\* (c) the capture is stopped before the transcript is read for scoring; and when
\* the phase becomes prep the narration the cancel handle names is over, when a
\* transcript has been read no recognizer is held.
C11_CallOrder ==
  [][/\ CalledBefore(calls', "ttsCancelRef.current", "setPhase prep")
     /\ CalledBefore(calls', "startRecognition", "startTimedPhase SPEAK_MS")
     /\ CalledBefore(calls', "stopRecognition", "read transcriptRef.current")
     /\ (phase # "prep" /\ phase' = "prep") =>
          (ttsCancelRef \notin narr' /\ "setPhase prep" \in SeqToSet(calls'))
     /\ (scored' # scored /\ scored' # << >>) =>
          (recognitionRef' = 0 /\ "read transcriptRef.current" \in SeqToSet(calls'))
     /\ (\E t \in timers' \ timers : t.kind = "speaking") =>
          (transcript' = "" /\ "startRecognition" \in SeqToSet(calls'))]_vars

\* C11 witness: a session went through the three callbacks and its transcript,
\* of a recognizer that was started, was read and scored
C11_AllThreeCallbacksRan ==
  /\ phase = "result"
  /\ scored # << >> /\ Len(scored[1].origin) > 0
  /\ calls = speakDone(FALSE)

\* C12: a recognizer is held (recognitionRef non-null) only while the phase is
\* speaking, the captures that are active are held, and at most one capture is
\* active at any instant.
C12_CaptureOnlyWhileSpeaking ==
  /\ recognitionRef # 0 => phase = "speaking"
  /\ capturing \subseteq {recognitionRef}
  /\ Cardinality(capturing) <= 1

\* C12 witness: the second session is capturing and the recognizer of the first
\* session, stopped at the end of its speaking phase, has not ended yet
C12_SecondCaptureAfterFirstStopped ==
  /\ phase = "speaking"
  /\ capturing = {2}
  /\ recognitionRef = 2
  /\ 1 \in recog

\* C13: a session whose startRecognition started no recognizer (no constructor, or
\* start threw) is scored on the empty transcript, whatever earlier sessions
\* accumulated, the scoring returns, and the session is in result.
C13_NoCaptureScoresEmpty ==
  (scored # << >> /\ scored[1].noCapture) =>
     /\ scored[1].transcript = ""
     /\ ~scored[1].threw
     /\ phase # "evaluating"

\* C14: the listening interval is started with a duration of at least the floor
\* STORY_LISTEN_MS (30 s), for every story text and speech rate.
C14_ListeningAtLeastFloor ==
  \A t \in timers : t.kind = "listening" => ~greater(Frac(STORY_LISTEN_MS, 1), t.ms)

\* C15: whatever the story, the transcript and the keyword list (empty ones
\* included), the percentage that computeMatchScore or
\* computeMatchScoreWithKeywords returns is an integer from 0 to 100.
C15_PercentageInRange ==
  (returned # << >> /\ ~returned[1].threw) => returned[1].percentage \in 0..100

\* C15 witness: a call returned 100 where the curve had taken the score above 100
C15_ClampedToHundred ==
  /\ returned # << >> /\ ~returned[1].threw
  /\ returned[1].percentage = 100
  /\ percentageUnclamped(finalScore(returned[1].baseScore)) > 100

\* the keyword universe of a call: the extracted keywords of the story, or the
\* keyword list lowercased and trimmed, without its empty entries
Universe(variant, story, keywords) ==
  IF variant = "generic" THEN extractKeywords(story, 20)
  ELSE SelectSeq(mapLowerTrim(keywords), IsNonEmpty)

\* C16: in both scoring functions every keyword of the universe is classified
\* exactly once: matched, partial and missing are pairwise disjoint, their union
\* is the universe, and totalKeywords = |matched| + |partial| + |missing| = the
\* size of the universe.
C16_EveryKeywordClassifiedOnce ==
  (returned # << >> /\ ~returned[1].threw) =>
     LET r == returned[1]
         K == Universe(r.variant, argStory, argKeywords)
         matched == SeqToSet(r.matchedKeywords)
         partial == SeqToSet(r.partialMatches)
         missing == SeqToSet(r.missingKeywords)
     IN /\ matched \cap partial = {}
        /\ matched \cap missing = {}
        /\ partial \cap missing = {}
        /\ matched \cup partial \cup missing = SeqToSet(K)
        /\ r.totalKeywords = Len(r.matchedKeywords) + Len(r.partialMatches)
                             + Len(r.missingKeywords)
        /\ r.totalKeywords = Len(K)

\* C17: with an empty keyword universe the keyword terms are 0; when the story
\* has no meaningful token the content-word score is 0 and the length ratio
\* adds nothing, for every transcript; so a story without meaningful tokens and
\* with an empty universe yields percentage = 0 and totalKeywords = 0, whether
\* the transcript is empty or not.
C17_DegenerateInputsScoreZero ==
  (returned # << >> /\ ~returned[1].threw) =>
     LET r == returned[1]
     IN /\ Len(Universe(r.variant, argStory, argKeywords)) = 0 =>
             (r.totalKeywords = 0 /\ r.exactMatches = 0 /\ r.partialMatchesCount = 0)
        /\ r.overlap.storyMeaningfulWords = 0 =>
             (r.overlap.contentWordScore = Frac(0, 1) /\ r.overlap.lengthBonus = Frac(0, 1))
        /\ (r.overlap.storyMeaningfulWords = 0
            /\ Len(Universe(r.variant, argStory, argKeywords)) = 0) =>
             (r.percentage = 0 /\ r.totalKeywords = 0)

\* C18: in the explicit-keyword variant a keyword is reported as matched only if
\* it or its stem is a transcript token; a keyword that is not, but contains or is
\* contained in some transcript token, or shares a common substring of length >= 3
\* with one, is reported in partialMatches and not in matchedKeywords.
C18_SubstringIsPartial ==
  (returned # << >> /\ ~returned[1].threw /\ returned[1].variant = "explicit") =>
     LET r == returned[1]
         K == SeqToSet(Universe("explicit", argStory, argKeywords))
         tokens == SeqToSet(normalize(argTranscript))
         IsExact(k) == k \in tokens \/ stem(k) \in tokens
         IsNear(k) == \E t \in tokens :
                         \/ includes(t, k) \/ includes(k, t)
                         \/ longestCommonSubstring(t, k) >= 3
     IN /\ \A k \in SeqToSet(r.matchedKeywords) : IsExact(k)
        /\ \A k \in K : (~IsExact(k) /\ IsNear(k)) =>
                           /\ k \in SeqToSet(r.partialMatches)
                           /\ k \notin SeqToSet(r.matchedKeywords)

\* the base score as the weighted sum of the four terms, from the counts of a call
WeightedSum(r, wExact, wPartial, wContent) ==
  LET size == r.totalKeywords
      exact == IF size = 0 THEN Frac(0, 1) ELSE Frac(Len(r.matchedKeywords), size)
      partial == IF size = 0 THEN Frac(0, 1) ELSE Frac(Len(r.partialMatches), 2 * size)
      content == IF r.overlap.contentWords = 0 THEN Frac(0, 1)
                 ELSE Frac(r.overlap.contentMatches, r.overlap.contentWords)
      ratio == MathMin(Frac(1, 1),
                       Frac(r.overlap.userMeaningfulWords, r.overlap.storyMeaningfulWords))
      bonus == times(MathMax(Frac(0, 1), minus(ratio, Frac(1, 2))), Frac(2, 10))
  IN plus(plus(plus(times(exact, wExact), times(partial, wPartial)), times(content, wContent)),
          bonus)

\* C19: for a story with meaningful tokens the base score is
\* exact * 0.6 + partial * 0.2 + content * 0.2 + lengthBonus in the generic variant
\* and exact * 0.7 + partial * 0.2 + content * 0.1 + lengthBonus in the
\* explicit-keyword variant, with exact = matched / universe, partial =
\* 0.5 * partial count / universe, content = the fraction of the story's distinct
\* meaningful tokens present in the transcript, and lengthBonus =
\* max(0, min(1, user tokens / story tokens) - 0.5) * 0.2.
C19_BaseScoreWeights ==
  (returned # << >> /\ ~returned[1].threw /\ returned[1].overlap.storyMeaningfulWords > 0) =>
     returned[1].baseScore =
       IF returned[1].variant = "generic"
       THEN WeightedSum(returned[1], Frac(6, 10), Frac(2, 10), Frac(2, 10))
       ELSE WeightedSum(returned[1], Frac(7, 10), Frac(2, 10), Frac(1, 10))

\* C19 witness: a call in which the exact, the partial, the content and the
\* length term are all positive
C19_AllTermsPositive ==
  /\ returned # << >> /\ ~returned[1].threw
  /\ returned[1].exactMatches > 0
  /\ returned[1].partialMatchesCount > 0
  /\ returned[1].overlap.contentMatches > 0
  /\ greater(returned[1].overlap.lengthBonus, Frac(0, 1))
  /\ returned[1].overlap.storyMeaningfulWords > 0

\* x * 100 clamped to [0, 100] and rounded to the nearest integer
ClampedPercent(x) ==
  LET y == times(x, Frac(100, 1))
      clamped == IF greater(Frac(0, 1), y) THEN Frac(0, 1)
                 ELSE IF greater(y, Frac(100, 1)) THEN Frac(100, 1) ELSE y
  IN MathRound(clamped)

\* the curve with its branches closed on the left: b below 0.2 is unchanged,
\* 0.2 <= b < 0.4 is rescaled by 1.2 from 0.2, b >= 0.4 by 1.3 from 0.4
CurveClosedLeft(b) ==
  IF greater(Frac(2, 10), b) THEN b
  ELSE IF greater(Frac(4, 10), b)
  THEN plus(Frac(2, 10), times(minus(b, Frac(2, 10)), Frac(12, 10)))
  ELSE plus(Frac(4, 10), times(minus(b, Frac(4, 10)), Frac(13, 10)))

\* the curve with its branches closed on the right: b up to 0.2 is unchanged,
\* 0.2 < b <= 0.4 is rescaled by 1.2 from 0.2, b > 0.4 by 1.3 from 0.4
CurveClosedRight(b) ==
  IF ~greater(b, Frac(2, 10)) THEN b
  ELSE IF ~greater(b, Frac(4, 10))
  THEN plus(Frac(2, 10), times(minus(b, Frac(2, 10)), Frac(12, 10)))
  ELSE plus(Frac(4, 10), times(minus(b, Frac(4, 10)), Frac(13, 10)))

\* C20 as stated: the percentage is the base score b taken through the curve
\* b for b < 0.2, 0.2 + (b - 0.2) * 1.2 for 0.2 <= b < 0.4, 0.4 + (b - 0.4) * 1.3
\* for b >= 0.4 (so that b = 0.4 gives 0.40), clamped to [0, 100] and rounded.
C20_CurveClosedAtPointFour ==
  (returned # << >> /\ ~returned[1].threw) =>
     returned[1].percentage = ClampedPercent(CurveClosedLeft(returned[1].baseScore))

\* C20 amended: the percentage is the base score b taken through the curve
\* b for b <= 0.2, 0.2 + (b - 0.2) * 1.2 for 0.2 < b <= 0.4, 0.4 + (b - 0.4) * 1.3
\* for b > 0.4 (so that b = 0.4 gives 0.44), clamped to [0, 100] and rounded.
C20_CurveOpenAtPointFour ==
  (returned # << >> /\ ~returned[1].threw) =>
     returned[1].percentage = ClampedPercent(CurveClosedRight(returned[1].baseScore))

\* C20 witness: a call whose base score is exactly 0.4 returned 44
C20_PointFourGivesFortyFour ==
  /\ returned # << >> /\ ~returned[1].threw
  /\ returned[1].baseScore = Frac(4, 10)
  /\ returned[1].percentage = 44

\* the result of the entry point named by variant on the given arguments
CallOf(variant, story, userText, keywords) ==
  IF variant = "generic" THEN computeMatchScore(story, userText)
  ELSE computeMatchScoreWithKeywords(story, userText, keywords)

\* C21: for a fixed story and keyword list, a transcript whose normalized
\* token set is within that of the transcript of the call has no more
\* matchedKeywords than the call returned, in both entry points (of calls
\* that return).
C21_MatchedMonotone ==
  (returned # << >> /\ ~returned[1].threw) =>
     \A t1 \in ScoreTranscripts :
        \A r1 \in {CallOf(returned[1].variant, argStory, t1, argKeywords)} :
           (SeqToSet(normalize(t1)) \subseteq SeqToSet(normalize(argTranscript)) /\ ~r1.threw)
              => Len(r1.matchedKeywords) <= Len(returned[1].matchedKeywords)

\* C21 witness: the call matched more keywords than a transcript with fewer
\* tokens does, which matches one at least
C21_MoreTokensMoreMatched ==
  /\ returned # << >> /\ ~returned[1].threw
  /\ \E t1 \in ScoreTranscripts :
        \E r1 \in {CallOf(returned[1].variant, argStory, t1, argKeywords)} :
           /\ SeqToSet(normalize(t1)) \subseteq SeqToSet(normalize(argTranscript))
           /\ SeqToSet(normalize(t1)) # SeqToSet(normalize(argTranscript))
           /\ ~r1.threw
           /\ 0 < Len(r1.matchedKeywords)
           /\ Len(r1.matchedKeywords) < Len(returned[1].matchedKeywords)

\* Array.prototype.join
join(seq, sep) ==
  concatRange([i \in 1..Len(seq) |-> IF i = 1 THEN seq[i] ELSE sep \o seq[i]], 1, Len(seq))

\* C22: normalize is idempotent on its own output:
\* normalize(join(normalize(x), " ")) = normalize(x) for every text x.
C22_NormalizeIdempotent ==
  (returned # << >> /\ returned[1].fn = "normalize") =>
     normalize(join(returned[1].value, " ")) = returned[1].value

\* the token with the first rule that matches applied, and no other:
\* -ies -> y, -ied -> y, -ing, -ed, then -ly / -ness / -ment / -s
FirstRuleOnly(token) ==
  IF endsWith(token, "ies") THEN replaceSuffix(token, "ies", "y")
  ELSE IF endsWith(token, "ied") THEN replaceSuffix(token, "ied", "y")
  ELSE IF endsWith(token, "ing") THEN replaceSuffix(token, "ing", "")
  ELSE IF endsWith(token, "ed") THEN replaceSuffix(token, "ed", "")
  ELSE IF endsWith(token, "ly") THEN replaceSuffix(token, "ly", "")
  ELSE IF endsWith(token, "ness") THEN replaceSuffix(token, "ness", "")
  ELSE IF endsWith(token, "ment") THEN replaceSuffix(token, "ment", "")
  ELSE replaceSuffix(token, "s", "")

\* C23: stem returns the irregular form of a token of the table, and otherwise
\* the token with only the first matching suffix rule applied (or unchanged):
\* no token is stripped by two rules in one call, and "riding" becomes "rid".
C23_StemAppliesOneRule ==
  (returned # << >> /\ returned[1].fn = "stem") =>
     /\ returned[1].value \in
          {p[2] : p \in {q \in irregulars : q[1] = toLowerCase(argStory)}}
          \cup {FirstRuleOnly(toLowerCase(argStory))}
     /\ (argStory = "riding" => returned[1].value = "rid")

\* the weighted frequency of token t in tokens exceeds that of token u by more
\* than 0.1 (the sums are kept times 10 * Len(tokens))
ExceedsByTenth(tokens, t, u) ==
  sumWeights(tokens, t, Len(tokens)) - sumWeights(tokens, u, Len(tokens)) > Len(tokens)

\* C24: extractKeywords(text, max) returns at most max distinct normalized
\* tokens of text, and in the returned sequence a token whose weighted
\* frequency exceeds another's by more than 0.1 precedes it.
C24_HeavierKeywordFirst ==
  (returned # << >> /\ returned[1].fn = "extractKeywords") =>
     LET tokens == normalize(argStory)
         sorted == returned[1].value
     IN /\ Len(sorted) <= returned[1].max
        /\ \A i \in 1..Len(sorted) : sorted[i] \in SeqToSet(tokens)
        /\ \A i, j \in 1..Len(sorted) : i < j => sorted[i] # sorted[j]
        /\ \A i, j \in 1..Len(sorted) : i < j => ~ExceedsByTenth(tokens, sorted[j], sorted[i])

\* the estimate is at least 15 s and at least 0.3 s per word
AtLeastMinimum(text, ms) ==
  /\ ~greater(Frac(15000, 1), ms)
  /\ ~greater(Frac(300 * splitLength(text), 1), ms)

\* C25 as stated: at a fixed speech rate a text with no more words than the
\* text of the call has an estimate no longer than the call's, and the
\* estimate is never below 15 s nor below 0.3 s per word.
C25_MonotoneInWordCount ==
  (returned # << >> /\ returned[1].fn = "estimateStoryDuration") =>
     /\ \A t1 \in TextInputs :
           splitLength(t1) <= splitLength(argStory)
              => ~greater(estimateStoryDuration(t1, returned[1].rate), returned[1].value)
     /\ AtLeastMinimum(argStory, returned[1].value)

\* C25 amended: at a fixed speech rate a text with no more words and no more
\* sentences than the text of the call has an estimate no longer than the
\* call's, and the estimate is never below 15 s nor below 0.3 s per word.
C25_MonotoneInWordsAndSentences ==
  (returned # << >> /\ returned[1].fn = "estimateStoryDuration") =>
     /\ \A t1 \in TextInputs :
           (/\ splitLength(t1) <= splitLength(argStory)
            /\ Len(splitIntoSentences(t1)) <= Len(splitIntoSentences(argStory)))
              => ~greater(estimateStoryDuration(t1, returned[1].rate), returned[1].value)
     /\ AtLeastMinimum(argStory, returned[1].value)

\* C25 witness: the call's estimate is longer than that of a text with fewer
\* words and fewer sentences, which is itself above the minimum
C25_LongerTextLongerEstimate ==
  /\ returned # << >> /\ returned[1].fn = "estimateStoryDuration"
  /\ \E t1 \in TextInputs :
        /\ splitLength(t1) < splitLength(argStory)
        /\ Len(splitIntoSentences(t1)) < Len(splitIntoSentences(argStory))
        /\ greater(estimateStoryDuration(t1, returned[1].rate), Frac(15000, 1))
        /\ greater(returned[1].value, estimateStoryDuration(t1, returned[1].rate))

\* C26: with explicit keywords, of a call that returns: a keyword whose
\* lowercased or stemmed form is a normalized transcript token is in
\* matchedKeywords; a keyword that has no common substring of length >= 3 with
\* any transcript token, and neither contains one nor is contained in one, is
\* in missingKeywords; and keywords [fox, jumped, lazy, dog] with the transcript
\* "a fox jumped over a sleeping dog" give fox, jumped and dog matched, lazy
\* missing and totalKeywords = 4.
C26_ExactMatchedUnrelatedMissing ==
  (returned # << >> /\ returned[1].variant = "explicit" /\ ~returned[1].threw) =>
     LET keywords == SelectSeq(mapLowerTrim(argKeywords), IsNonEmpty)
         tokens == SeqToSet(normalize(argTranscript))
         Unrelated(k) == \A t \in tokens : /\ longestCommonSubstring(t, k) < 3
                                           /\ ~includes(t, k)
                                           /\ ~includes(k, t)
     IN /\ \A i \in 1..Len(keywords) :
              (keywords[i] \in tokens \/ stem(keywords[i]) \in tokens)
                 => keywords[i] \in SeqToSet(returned[1].matchedKeywords)
        /\ \A i \in 1..Len(keywords) :
              Unrelated(keywords[i]) => keywords[i] \in SeqToSet(returned[1].missingKeywords)
        /\ (/\ argKeywords = << "fox", "jumped", "lazy", "dog" >>
            /\ argTranscript = "a fox jumped over a sleeping dog")
              => /\ {"fox", "jumped", "dog"} \subseteq SeqToSet(returned[1].matchedKeywords)
                 /\ "lazy" \in SeqToSet(returned[1].missingKeywords)
                 /\ returned[1].totalKeywords = 4

\* C27: a step in which the phase becomes result puts exactly one practice
\* record in front of the history, carrying the session and the percentage of
\* the result shown, and no other step changes the history.
C27_OneRecordPerResult ==
  [][IF phase' = "result" /\ phase # "result"
     THEN /\ Len(practiceHistory') = Len(practiceHistory) + 1
          /\ Tail(practiceHistory') = practiceHistory
          /\ result' # << >> /\ scored' # << >>
          /\ practiceHistory'[1].score = result'[1].percentage
          /\ practiceHistory'[1].sess = scored'[1].sess
     ELSE practiceHistory' = practiceHistory]_vars

\* C27 witness: two sessions have entered result and the history holds their
\* two records, the later one first
C27_TwoResultsTwoRecords ==
  /\ phase = "result"
  /\ Len(practiceHistory) = 2
  /\ practiceHistory[1].sess = 2 /\ practiceHistory[2].sess = 1

\* Try Same Story (or R) was chosen on the result of a scored session and no
\* session has been started since: the phase is idle, the result and the
\* current story are cleared, and the session last scored is still on record
RetryChosen ==
  /\ phase = "idle"
  /\ result = << >>
  /\ currentStoryIndex = 0
  /\ scored # << >> /\ ~scored[1].threw

\* C28: a session started after Try Same Story, while the story of the session
\* just completed is still among the stories of the selected difficulty,
\* narrates and scores that same story.
C28_RetryStartsSameStory ==
  [][(/\ RetryChosen
      /\ \E i \in 1..Len(filteredStories(stories, selectedDifficulty)) :
            filteredStories(stories, selectedDifficulty)[i] = scored[1].story
      /\ phase' = "listening")
        => /\ currentStoryIndex' = scored[1].story
           /\ \A t \in timers' : t.story = scored[1].story]_vars

\* C29: when the narration of the current session ends while the phase is
\* listening (its promise settles; the session is neither cancelled nor
\* unmounted in that step), the phase becomes prep in that step.
C29_NarrationEndLeavesListening ==
  [][(/\ phase = "listening"
      /\ ttsCancelRef \in narr
      /\ narr' = narr \ {ttsCancelRef}
      /\ UNCHANGED << mounted, currentStoryIndex, sessCount >>)
        => phase' = "prep"]_vars

\* C30: while the cancel handle is spent (the narration it belongs to has
\* settled: it was cancelled before, ended or failed) or is the initial handle
\* (no narration was started), no step settles a narration, and the speech of
\* the Test TTS button is cancelled only by the synthesis.cancel() of a newly
\* started narration: a call of the handle stops no other speech.  A step that
\* only calls the spent handle (Skip Audio) changes nothing.
C30_SpentHandleHasNoEffect ==
  [][ttsCancelRef \notin narr =>
        /\ narr \subseteq narr'
        /\ (testSpeech = "speaking" /\ testSpeech' = "cancelled") => sessCount' = sessCount + 1]_vars

\* C30 witness: the component was unmounted, which calls the handle, when the
\* narration of its session had settled, and the speech of the Test TTS button
\* goes on
C30_SpentHandleCalledDuringTestSpeech ==
  /\ ~mounted
  /\ ttsCancelRef # 0 /\ ttsCancelRef \notin narr
  /\ testSpeech = "speaking"

\* C31: whenever the phase is result, a result is present (result is not null).
C31_ResultPhaseHasResult == phase = "result" => result # << >>

\* a is a number and a <= b
atMost(a, b) == a # NaN /\ b # NaN /\ ~greater(a, b)

\* C32: the percentage is monotone in the base score: a call whose base score
\* is at most that of the call that returned has a percentage that is at most
\* the returned one, and a call whose base score is at least the returned one
\* has a percentage that is at least the returned one (of calls that return).
C32_PercentageMonotoneInBase ==
  (returned # << >> /\ ~returned[1].threw) =>
     \A s1 \in ScoreStories, t1 \in ScoreTranscripts :
        \A r1 \in {CallOf(returned[1].variant, s1, t1, argKeywords)} :
           ~r1.threw =>
              /\ atMost(r1.baseScore, returned[1].baseScore)
                    => r1.percentage <= returned[1].percentage
              /\ atMost(returned[1].baseScore, r1.baseScore)
                    => returned[1].percentage <= r1.percentage

\* C33: the storyIndex of a practice record is the index, in the full story
\* list, of the story that was narrated and scored in the record's session.
C33_RecordNamesScoredStory ==
  \A i \in 1..Len(practiceHistory) :
     (scored # << >> /\ scored[1].sess = practiceHistory[i].sess)
        => practiceHistory[i].storyIndex = scored[1].story

\* C34: the practice history holds at most 10 records, newest first: it is
\* the last ten completed sessions (all of them while there are fewer), the
\* latest in front.
C34_LastTenNewestFirst ==
  /\ Len(practiceHistory) <= 10
  /\ Len(practiceHistory) = (IF sessCount < 10 THEN sessCount ELSE 10)
  /\ \A i \in 1..Len(practiceHistory) : practiceHistory[i].sess = sessCount - i + 1

\* C34 witness: twelve sessions have completed and the history holds the ten
\* latest of them, the first two dropped
C34_OldestDropped ==
  /\ sessCount = 12
  /\ Len(practiceHistory) = 10
  /\ practiceHistory[1].sess = 12 /\ practiceHistory[10].sess = 3

\* C35: a session is started only from idle or result, and never while
\* another is in progress: in a step that starts a session the phase before is
\* idle or result, and after it no interval, narration or capture of an
\* earlier session is left.
C35_StartOnlyFromIdleOrResult ==
  [][sessCount' # sessCount =>
       /\ phase \in {"idle", "result"}
       /\ phase' = "listening"
       /\ \A t \in timers' : t.sess = sessCount'
       /\ narr' \subseteq {sessCount'}
       /\ capturing' = {}]_vars

\* C35 witness: a second session has been started and is listening
C35_SecondSessionStarted ==
  /\ sessCount = 2
  /\ phase = "listening"
  /\ \E t \in timers : t.sess = 2 /\ t.kind = "listening"

\* C36: at most one narration is active at any instant, and while a narration
\* is active (neither settled nor cancelled) the phase is listening.
C36_OneNarrationInListeningOnly ==
  /\ Cardinality(narr) <= 1
  /\ narr # {} => phase = "listening"

\* C36 witness: the narration of a second session is active, the first
\* session's having been cancelled or having ended
C36_SecondNarrationActive ==
  /\ narr = {2}
  /\ phase = "listening"

\* C37: Skip Audio during listening only cancels the narration: the step
\* leaves no narration active and changes neither the phase, the live
\* intervals and the one timerRef names, the selected story, the transcript nor
\* anything else of the session; the listening interval of the session is still
\* live after it, and a listening phase in which the narration was skipped is
\* left for prep only by the expiry of that interval (or for idle, by Cancel).
C37_SkipOnlyCancelsNarration ==
  [][/\ SkipAudio =>
          /\ narr' = {}
          /\ phase' = "listening"
          /\ UNCHANGED << timers, timerRef, progress, currentStoryIndex, transcript,
                          transcriptOrigin, capturing, recognitionRef, result, error,
                          practiceHistory, sessCount, scored, calls >>
          /\ \E t \in timers' :
                t.kind = "listening" /\ t.sess = sessCount' /\ t.id = timerRef'
     /\ (skipped /\ phase' \notin {"listening", "idle"}) =>
          /\ phase' = "prep"
          /\ \E t \in timers \ timers' :
                t.kind = "listening" /\ t.sess = sessCount /\ t.id = timerRef]_vars

\* C37 witness: the narration was skipped: the phase is listening with the
\* session's interval live, and no narration is active
C37_SkippedStillListening ==
  /\ skipped
  /\ phase = "listening"
  /\ narr = {}
  /\ ttsCancelRef = sessCount
  /\ \E t \in timers : t.kind = "listening" /\ t.sess = sessCount

\* C38: the unmount cleanup cancels the narration, stops the capture and
\* clears the live interval, in whatever phase, and after it nothing more
\* happens: no interval is live, so no timer callback runs, and the phase, the
\* cues and the other calls of the callbacks, the capture, the narration, the
\* result, the history and the scoring record never change again.
C38_NothingAfterUnmount ==
  [][/\ ~mounted' => (timers' = {} /\ narr' = {} /\ capturing' = {})
     /\ ~mounted => UNCHANGED << mounted, phase, progress, calls, capturing, recognitionRef,
                                 narr, timers, result, practiceHistory, scored, sessCount,
                                 currentStoryIndex >>]_vars

\* C38 witness: the component was unmounted while speaking, with an interval
\* live and a capture running until then
C38_UnmountedWhileSpeaking ==
  /\ ~mounted
  /\ phase = "speaking"
  /\ timerRef # 0 /\ timers = {}
  /\ recog # {} /\ capturing = {}

\* the number of times the call c is in the sequence
RECURSIVE CountOf(_, _)
CountOf(seq, c) ==
  IF seq = << >> THEN 0 ELSE (IF Head(seq) = c THEN 1 ELSE 0) + CountOf(Tail(seq), c)

\* a timer callback runs in the step and makes the call c
CallbackCalls(c) == (ListenExpire \/ PrepExpire \/ SpeakExpire) /\ CountOf(calls', c) > 0

\* C39: the begin cue is emitted exactly once in a step from prep to
\* speaking, before the capture is started, the end cue exactly once in a step
\* from speaking to evaluating, before the capture is stopped, and no cue is
\* emitted in any other step: a step that emits the begin cue leaves prep, one
\* that emits the end cue leaves speaking.
C39_CuesOnlyAtTransitions ==
  [][/\ (phase = "prep" /\ phase' = "speaking") =>
          /\ CallbackCalls("beep start")
          /\ CountOf(calls', "beep start") = 1 /\ CountOf(calls', "beep end") = 0
          /\ CalledBefore(calls', "beep start", "startRecognition")
     /\ (phase = "speaking" /\ phase' \in {"evaluating", "result"}) =>
          /\ CallbackCalls("beep end")
          /\ CountOf(calls', "beep end") = 1 /\ CountOf(calls', "beep start") = 0
          /\ CalledBefore(calls', "beep end", "stopRecognition")
     /\ CallbackCalls("beep start") => (phase = "prep" /\ phase' = "speaking")
     /\ CallbackCalls("beep end") =>
          (phase = "speaking" /\ phase' \in {"evaluating", "result"})]_vars
====
